---- MODULE Spec2Model ----
(***************************************************************************)
(* Model of the mowan game engine: the duel resolver and the settlement    *)
(* cascade of backend/game_logic.py, and the room handlers of              *)
(* backend/app.py over the room / room_players / game_actions tables of    *)
(* backend/database.py.                                                    *)
(***************************************************************************)
EXTENDS Integers, Sequences, FiniteSets, TLC

VARIABLES
    \* ---- one room of the database (rooms, room_players, game_actions) ----
    status,          \* rooms.status
    turn_order,      \* rooms.turn_order (decoded JSON list; NULL reads as [])
    current_round,   \* rooms.current_round
    current_turn,    \* rooms.current_turn
    public_area,     \* rooms.public_area (decoded JSON list of pieces)
    board,           \* room_players.board per user (decoded JSON dict)
    eliminated,      \* room_players.eliminated per user (decoded JSON list)
    is_active,       \* room_players.is_active per user; None = no row
    game_actions,    \* the number of rows of the game_actions table
    resp,            \* the response of the last request
    \* ---- one call of GameLogic.duel ----
    dNum1, dPlayer1, dNum2, dPlayer2, dResult, dSwapped, dPc,
    \* ---- one call of GameLogic.resolve_public_area ----
    sPublic, sOrder, sArea, sElim, sExtra, sP1, sP2, sPc,
    \* ---- requests to game_action that have read the room and not yet written ----
    pending,
    \* ---- the board view last returned to a caller ----
    view

roomVars   == <<status, turn_order, current_round, current_turn, public_area>>
playerVars == <<board, eliminated, is_active>>
gameVars   == <<roomVars, playerVars, game_actions, resp>>
duelVars   == <<dNum1, dPlayer1, dNum2, dPlayer2, dResult, dSwapped, dPc>>
settleVars == <<sPublic, sOrder, sArea, sElim, sExtra, sP1, sP2, sPc>>
raceVars   == <<pending>>
viewVars   == <<view>>
vars       == <<gameVars, duelVars, settleVars, raceVars, viewVars>>

-----------------------------------------------------------------------------
(* Values *)

\* Python's None (player ids and digits are never negative).
None == -1

\* users.id is AUTOINCREMENT, so ids start at 1; three accounts use the room.
Users == {1, 2, 3}

ALL_NUMBERS == 0 .. 9

Piece(number, player_id) == [number |-> number, player_id |-> player_id]

\* The elements of a sequence, as a set.
Range(s) == {s[i] : i \in 1 .. Len(s)}

\* The owners of the pieces of an area: set(p['player_id'] for p in area).
Owners(area) == {area[i].player_id : i \in 1 .. Len(area)}

\* All orderings (without repetition) of the set S.
Perms(S) ==
    {s \in [1 .. Cardinality(S) -> S] : \A i, j \in 1 .. Cardinality(S) : s[i] = s[j] => i = j}

\* All sequences over S of length at most n.
SeqsUpTo(S, n) == UNION {[1 .. k -> S] : k \in 0 .. n}

-----------------------------------------------------------------------------
(* GameLogic.duel *)

\* duel with the general rule reversed: the larger number wins.
duel_LargerWins(num1, player1, num2, player2) ==
    IF num1 = num2
    THEN [winner |-> None, eliminated_ids |-> <<player1, player2>>]
    ELSE IF (num1 = 0 /\ num2 \in {6, 9}) \/ (num2 = 0 /\ num1 \in {6, 9})
    THEN [winner |-> None, eliminated_ids |-> <<player1, player2>>]
    ELSE IF num1 = 8 /\ num2 = 0
    THEN [winner |-> player1, eliminated_ids |-> <<player2>>]
    ELSE IF num2 = 8 /\ num1 = 0
    THEN [winner |-> player2, eliminated_ids |-> <<player1>>]
    ELSE IF num1 > num2
    THEN [winner |-> player1, eliminated_ids |-> <<player2>>]
    ELSE [winner |-> player2, eliminated_ids |-> <<player1>>]

\* duel without the mirrored "8 beats 0" branch (num2 == 8 and num1 == 0).
duel_NoMirror(num1, player1, num2, player2) ==
    IF num1 = num2
    THEN [winner |-> None, eliminated_ids |-> <<player1, player2>>]
    ELSE IF (num1 = 0 /\ num2 \in {6, 9}) \/ (num2 = 0 /\ num1 \in {6, 9})
    THEN [winner |-> None, eliminated_ids |-> <<player1, player2>>]
    ELSE IF num1 = 8 /\ num2 = 0
    THEN [winner |-> player1, eliminated_ids |-> <<player2>>]
    ELSE IF num1 < num2
    THEN [winner |-> player1, eliminated_ids |-> <<player2>>]
    ELSE [winner |-> player2, eliminated_ids |-> <<player1>>]

\* Returns (winner_player_id or None, eliminated_player_ids list).
duel(num1, player1, num2, player2) ==
    IF num1 = num2
    THEN [winner |-> None, eliminated_ids |-> <<player1, player2>>]
    ELSE IF (num1 = 0 /\ num2 \in {6, 9}) \/ (num2 = 0 /\ num1 \in {6, 9})
    THEN [winner |-> None, eliminated_ids |-> <<player1, player2>>]
    ELSE IF num1 = 8 /\ num2 = 0
    THEN [winner |-> player1, eliminated_ids |-> <<player2>>]
    ELSE IF num2 = 8 /\ num1 = 0
    THEN [winner |-> player2, eliminated_ids |-> <<player1>>]
    ELSE IF num1 < num2
    THEN [winner |-> player1, eliminated_ids |-> <<player2>>]
    ELSE [winner |-> player2, eliminated_ids |-> <<player1>>]

-----------------------------------------------------------------------------
(* GameLogic.resolve_public_area *)

\* order_map.get(pid, 999): the index of pid in turn_order (the last one, as
\* the dict comprehension overwrites), 999 for an owner that is not in it.
OrderKey(order, pid) ==
    IF \E i \in 1 .. Len(order) : order[i] = pid
    THEN (CHOOSE i \in 1 .. Len(order) :
              /\ order[i] = pid
              /\ \A j \in 1 .. Len(order) : order[j] = pid => j <= i) - 1
    ELSE 999

\* Insert piece x into the sorted area s behind every piece whose key is not
\* larger: list.sort is stable.
RECURSIVE InsertByOrder(_, _, _)
InsertByOrder(s, x, order) ==
    IF s = <<>> THEN <<x>>
    ELSE IF OrderKey(order, x.player_id) < OrderKey(order, s[1].player_id)
    THEN <<x>> \o s
    ELSE <<s[1]>> \o InsertByOrder(Tail(s), x, order)

\* current_area.sort(key=lambda x: order_map.get(x['player_id'], 999))
RECURSIVE SortByOrder(_, _)
SortByOrder(area, order) ==
    IF area = <<>> THEN <<>>
    ELSE InsertByOrder(SortByOrder(SubSeq(area, 1, Len(area) - 1), order),
                       area[Len(area)], order)

\* The eliminated entries one duel adds: for eid in eliminated_ids, the number
\* is p1's when eid is p1's owner and p2's otherwise.
RECURSIVE EliminatedPieces(_, _, _)
EliminatedPieces(ids, p1, p2) ==
    IF ids = <<>> THEN <<>>
    ELSE <<Piece(IF ids[1] = p1.player_id THEN p1.number ELSE p2.number, ids[1])>>
         \o EliminatedPieces(Tail(ids), p1, p2)

\* One pass of the while loop, with the duelled pieces left in the working set
\* when the duel has a winner (current_area = current_area[2:] skipped).
ResolveIter_KeepDuelled(current_area, elim, order) ==
    LET Duelled(sorted, p1, p2, d) ==
            LET rest == IF d.winner # None THEN sorted ELSE SubSeq(sorted, 3, Len(sorted))
                winner_piece == IF d.winner = p1.player_id THEN p1 ELSE p2
            IN  [current_area |-> IF d.winner # None
                                  THEN Append(rest, winner_piece) ELSE rest,
                 eliminated   |-> elim \o EliminatedPieces(d.eliminated_ids, p1, p2),
                 p1 |-> p1, p2 |-> p2]
        Sorted(sorted) ==
            Duelled(sorted, sorted[1], sorted[2],
                    duel(sorted[1].number, sorted[1].player_id,
                         sorted[2].number, sorted[2].player_id))
    IN  Sorted(SortByOrder(current_area, order))

\* One pass of the while loop, the winner of the duel not put back.
ResolveIter_DropWinner(current_area, elim, order) ==
    LET Duelled(sorted, p1, p2, d) ==
            [current_area |-> SubSeq(sorted, 3, Len(sorted)),
             eliminated   |-> elim \o EliminatedPieces(d.eliminated_ids, p1, p2),
             p1 |-> p1, p2 |-> p2]
        Sorted(sorted) ==
            Duelled(sorted, sorted[1], sorted[2],
                    duel(sorted[1].number, sorted[1].player_id,
                         sorted[2].number, sorted[2].player_id))
    IN  Sorted(SortByOrder(current_area, order))

\* One pass of the while loop, up to the two break tests: sort, duel the first
\* two pieces, remove them, record the eliminated, put the winner back.
ResolveIter(current_area, elim, order) ==
    LET Duelled(sorted, p1, p2, d) ==
            LET rest == SubSeq(sorted, 3, Len(sorted))
                winner_piece == IF d.winner = p1.player_id THEN p1 ELSE p2
            IN  [current_area |-> IF d.winner # None
                                  THEN Append(rest, winner_piece) ELSE rest,
                 eliminated   |-> elim \o EliminatedPieces(d.eliminated_ids, p1, p2),
                 p1 |-> p1, p2 |-> p2]
        Sorted(sorted) ==
            Duelled(sorted, sorted[1], sorted[2],
                    duel(sorted[1].number, sorted[1].player_id,
                         sorted[2].number, sorted[2].player_id))
    IN  Sorted(SortByOrder(current_area, order))

\* The loop goes round again: neither break is taken and the while test holds.
LoopContinues(current_area) ==
    /\ Len(current_area) >= 2
    /\ Cardinality(Owners(current_area)) >= 2

\* The while loop from a working set of at least two pieces.
RECURSIVE ResolveLoop(_, _, _)
ResolveLoop(current_area, elim, order) ==
    LET Passed(s) == IF LoopContinues(s.current_area)
                     THEN ResolveLoop(s.current_area, s.eliminated, order)
                     ELSE s
    IN  Passed(ResolveIter(current_area, elim, order))

\* The two early returns: an empty area, and a single piece.
EarlyReturn(area) ==
    IF Len(area) = 0
    THEN [public_area |-> <<>>, eliminated |-> <<>>, extra |-> None]
    ELSE [public_area |-> <<>>, eliminated |-> <<>>, extra |-> area[1].player_id]

\* Returns (updated_public_area, eliminated list, extra_action_player or None).
resolve_public_area(area, order) ==
    IF Len(area) < 2
    THEN EarlyReturn(area)
    ELSE LET Returned(r) ==
                 [public_area |-> r.current_area, eliminated |-> r.eliminated, extra |-> None]
         IN  Returned(ResolveLoop(area, <<>>, order))

-----------------------------------------------------------------------------
(* Boards: GameLogic's cells and movement rule *)

ROWS == 3
COLS == 6
COL_NAMES == <<"A", "B", "C", "D", "E", "F">>

\* The decimal digit a row number is written with in a cell id.
RowDigit == <<"1", "2", "3">>

\* f"{row + 1}{COL_NAMES[col]}" for a 0-based row and column.
get_cell_id(row, col) == RowDigit[row + 1] \o COL_NAMES[col + 1]

\* The 18 keys of create_empty_board.
Cells == {get_cell_id(row, col) : row \in 0 .. ROWS - 1, col \in 0 .. COLS - 1}

\* Parse a cell id like "1A" to (row, col): int(cell_id[0]) - 1 and the
\* index of cell_id[1] in COL_NAMES.
get_cell_position(cell_id) ==
    CHOOSE rc \in (0 .. ROWS - 1) \X (0 .. COLS - 1) : get_cell_id(rc[1], rc[2]) = cell_id

\* The cell in front of a cell, "public" for the front row.
get_front_cell(cell_id) ==
    LET rc == get_cell_position(cell_id)
    IN  IF rc[1] = 0 THEN "public" ELSE get_cell_id(rc[1] - 1, rc[2])

\* dict.get(cell_id): None for a key the board does not have.
GetCell(b, cell_id) == IF cell_id \in DOMAIN b THEN b[cell_id] ELSE None

\* board[cell_id] = v, which adds the key when the board lacks it.
SetCell(b, cell_id, v) ==
    [c \in DOMAIN b \cup {cell_id} |-> IF c = cell_id THEN v ELSE b[c]]

\* sum(1 for v in board.values() if v is not None)
BoardCount(b) == Cardinality({c \in DOMAIN b : b[c] # None})

\* Exactly 10 numbers placed.
is_valid_board(b) == BoardCount(b) = 10

\* Python's None as the value of a cell in a dict whose other values are
\* the string 'occupied'.
NoneText == "None"

\* get_board_summary telling occupancy by the truth value of the cell: the
\* digit 0 is shown as empty.
get_board_summary_Truthy(b, reveal_all) ==
    IF reveal_all THEN b
    ELSE [cell_id \in DOMAIN b |->
             IF b[cell_id] # None /\ b[cell_id] # 0 THEN "occupied" ELSE NoneText]

\* Board summary for display: the board itself when reveal_all, otherwise
\* 'occupied' or None per cell.
get_board_summary(b, reveal_all) ==
    IF reveal_all THEN b
    ELSE [cell_id \in DOMAIN b |-> IF b[cell_id] # None THEN "occupied" ELSE NoneText]

\* can_move_forward with the test of the front cell left out.
can_move_forward_Unblocked(b, cell_id) ==
    IF cell_id \notin DOMAIN b \/ b[cell_id] = None
    THEN [ok |-> FALSE, result |-> "No piece at this position"]
    ELSE [ok |-> TRUE, result |-> get_front_cell(cell_id)]

\* Returns (False, reason) or (True, front cell or 'public').
can_move_forward(b, cell_id) ==
    IF cell_id \notin DOMAIN b \/ b[cell_id] = None
    THEN [ok |-> FALSE, result |-> "No piece at this position"]
    ELSE LET front == get_front_cell(cell_id)
         IN  IF front = "public" THEN [ok |-> TRUE, result |-> front]
             ELSE IF front \in DOMAIN b /\ b[front] # None
             THEN [ok |-> FALSE, result |-> "Target cell is occupied"]
             ELSE [ok |-> TRUE, result |-> front]

\* check_winner naming a winner whenever any player has a piece on the board.
check_winner_AnySurvivor(players, boards) ==
    LET active_players == {u \in players : BoardCount(boards[u]) > 0}
    IN  IF Cardinality(active_players) >= 1
        THEN CHOOSE u \in active_players : \A v \in active_players : u <= v
        ELSE None

\* The winner, when exactly one of the players given has a piece on the
\* board; players is the set of rows read, boards their boards.
check_winner(players, boards) ==
    LET active_players == {u \in players : BoardCount(boards[u]) > 0}
    IN  IF Cardinality(active_players) = 1
        THEN CHOOSE u \in active_players : TRUE
        ELSE None

-----------------------------------------------------------------------------
(* The database: one room, its room_players rows, its game_actions rows.   *)
(* The JSON text of a column is modelled by the value it decodes to: the   *)
(* handlers only ever store json.dumps of lists and dicts of ints, strings *)
(* and None, which json.loads gives back unchanged.                        *)

\* rooms.creator_id: the first account created the room and joined it.
creator_id == 1

\* rooms.max_players of the room (create_room accepts 2 to 5).
max_players == 3

\* db.get_room_players: the users of the rows with is_active = 1.
ActivePlayers == {u \in Users : is_active[u] = 1}

\* The room_players columns the handlers write, as one value, with the
\* users whose row a request has written so far.
Tables == [board |-> board, eliminated |-> eliminated, written |-> {}]

\* db.update_player_board: UPDATE ... WHERE room_id = ? AND user_id = ?
\* changes the row of the user if there is one.
update_player_board(t, user_id, b, e) ==
    IF is_active[user_id] = None THEN t
    ELSE [board      |-> [t.board EXCEPT ![user_id] = b],
          eliminated |-> [t.eliminated EXCEPT ![user_id] = e],
          written    |-> t.written \cup {user_id}]

\* The "Update eliminated" loop: each entry is written from the rows read at
\* the start of the request (players), not from the rows as they are now.
RECURSIVE UpdateEliminated(_, _, _)
UpdateEliminated(t, elim, players) ==
    IF elim = <<>> THEN t
    ELSE LET e == elim[1]
             t1 == IF e.player_id \in players.active
                   THEN update_player_board(t, e.player_id,
                            players.board[e.player_id],
                            Append(players.eliminated[e.player_id], e.number))
                   ELSE t
         IN  UpdateEliminated(t1, Tail(elim), players)

\* The columns of row 3 (1-based indexes into COL_NAMES) that are free.
FreeBackCols(b) == {i \in 1 .. COLS : GetCell(b, "3" \o COL_NAMES[i]) = None}

\* The first free row-3 cell in column order takes the number; none: dropped.
PlaceInBackRow(b, number) ==
    IF FreeBackCols(b) = {} THEN b
    ELSE LET i == CHOOSE i \in FreeBackCols(b) : \A j \in FreeBackCols(b) : i <= j
         IN  SetCell(b, "3" \o COL_NAMES[i], number)

\* The "Return remaining public area pieces to owners" loop, again from the
\* rows read at the start of the request.
RECURSIVE ReturnLeftovers(_, _, _)
ReturnLeftovers(t, area, players) ==
    IF area = <<>> THEN t
    ELSE LET piece == area[1]
             t1 == IF piece.player_id \in players.active
                   THEN update_player_board(t, piece.player_id,
                            PlaceInBackRow(players.board[piece.player_id], piece.number),
                            players.eliminated[piece.player_id])
                   ELSE t
         IN  ReturnLeftovers(t1, Tail(area), players)

-----------------------------------------------------------------------------
(* game_action: POST /api/rooms/<room_id>/action *)

\* The response of a request to the handler op: the HTTP code, the 'error'
\* text ("" on success) and the 'winner' of 'Game finished'. The caller
\* user is not part of the response.
Resp(op, user, code, error, winner) ==
    [op |-> op, code |-> code, error |-> error, winner |-> winner]

\* action_data, with the keys an action does not read left out of account.
ActionData(cell_id, target_id, target_cell, piece_index) ==
    [cell_id |-> cell_id, target_id |-> target_id,
     target_cell |-> target_cell, piece_index |-> piece_index]

\* What one branch of the handler leaves behind: an error return, or the
\* room_players columns as written, the local public_area (also written to
\* the room by every branch but pass) and the game_actions rows.
BranchError(code, error) ==
    [code |-> code, error |-> error, t |-> Tables, public_area |-> public_area]

BranchDone(t, area) ==
    [code |-> 200, error |-> "", t |-> t, public_area |-> area]

\* sequence s without its element at (1-based) position i: list.pop.
RemoveAt(s, i) == SubSeq(s, 1, i - 1) \o SubSeq(s, i + 1, Len(s))

\* action_type == 'forward'
ForwardBranch(user_id, action_data, players) ==
    LET b  == players.board[user_id]
        cm == can_move_forward(b, action_data.cell_id)
    IN  IF ~cm.ok THEN BranchError(400, cm.result)
        ELSE LET number == b[action_data.cell_id]
                 b1     == [b EXCEPT ![action_data.cell_id] = None]
                 b2     == IF cm.result = "public" THEN b1 ELSE SetCell(b1, cm.result, number)
                 area   == IF cm.result = "public"
                           THEN Append(public_area, Piece(number, user_id))
                           ELSE public_area
             IN  BranchDone(update_player_board(Tables, user_id, b2,
                                                players.eliminated[user_id]),
                            area)

\* action_type == 'challenge'
ChallengeBranch(user_id, action_data, players) ==
    LET target_id   == action_data.target_id
        target_cell == action_data.target_cell
    IN  IF target_id \notin players.active
        THEN BranchError(404, "Target player not found")
        ELSE LET target_board == players.board[target_id]
             IN  IF target_cell \notin DOMAIN target_board \/ target_board[target_cell] = None
                 THEN BranchError(400, "Invalid target cell")
                 ELSE LET number == target_board[target_cell]
                          tb1    == [target_board EXCEPT ![target_cell] = None]
                          Resolved(r) ==
                              BranchDone(
                                  update_player_board(
                                      UpdateEliminated(Tables, r.eliminated, players),
                                      target_id, tb1, players.eliminated[target_id]),
                                  r.public_area)
                      IN  Resolved(resolve_public_area(
                                       Append(public_area, Piece(number, target_id)),
                                       turn_order))

\* The recycle branch with public_area.pop(idx) left out: the piece is put on
\* the board and stays in the public area.
RecycleBranch_NoPop(user_id, action_data, players) ==
    LET b             == players.board[user_id]
        player_pieces == SelectSeq([i \in 1 .. Len(public_area) |-> i],
                                   LAMBDA i : public_area[i].player_id = user_id)
        piece_idx     == action_data.piece_index
        target_cell   == action_data.target_cell
    IN  IF Len(public_area) = 0 THEN BranchError(400, "Public area is empty")
        ELSE IF player_pieces = <<>> THEN BranchError(400, "No piece in public area")
        ELSE IF piece_idx >= Len(player_pieces) THEN BranchError(400, "Invalid piece index")
        ELSE IF piece_idx < 0 - Len(player_pieces) THEN BranchError(500, "IndexError")
        ELSE LET idx == IF piece_idx >= 0
                        THEN player_pieces[piece_idx + 1]
                        ELSE player_pieces[Len(player_pieces) + piece_idx + 1]
                 piece == public_area[idx]
             IN  IF target_cell \notin DOMAIN b \/ b[target_cell] # None
                 THEN BranchError(400, "Invalid target cell")
                 ELSE BranchDone(update_player_board(Tables, user_id,
                                     [b EXCEPT ![target_cell] = piece.number],
                                     players.eliminated[user_id]),
                                 public_area)

\* action_type == 'recycle'
RecycleBranch(user_id, action_data, players) ==
    LET b             == players.board[user_id]
        player_pieces == SelectSeq([i \in 1 .. Len(public_area) |-> i],
                                   LAMBDA i : public_area[i].player_id = user_id)
        piece_idx     == action_data.piece_index
        target_cell   == action_data.target_cell
    IN  IF Len(public_area) = 0 THEN BranchError(400, "Public area is empty")
        ELSE IF player_pieces = <<>> THEN BranchError(400, "No piece in public area")
        ELSE IF piece_idx >= Len(player_pieces) THEN BranchError(400, "Invalid piece index")
        ELSE IF piece_idx < 0 - Len(player_pieces) THEN BranchError(500, "IndexError")
        ELSE LET idx == IF piece_idx >= 0
                        THEN player_pieces[piece_idx + 1]
                        ELSE player_pieces[Len(player_pieces) + piece_idx + 1]
                 piece == public_area[idx]
             IN  IF target_cell \notin DOMAIN b \/ b[target_cell] # None
                 THEN BranchError(400, "Invalid target cell")
                 ELSE BranchDone(update_player_board(Tables, user_id,
                                     [b EXCEPT ![target_cell] = piece.number],
                                     players.eliminated[user_id]),
                                 RemoveAt(public_area, idx))

\* The state of the room a request leaves, and its response.
Outcome(r, st, round, turn, area, t, logged) ==
    [resp |-> r, status |-> st, current_round |-> round, current_turn |-> turn,
     public_area |-> area, board |-> t.board, eliminated |-> t.eliminated,
     written |-> t.written, game_actions |-> logged]

\* A request that records its action before it returns an error.
Rejected_Logged(r) ==
    Outcome(r, status, current_round, current_turn, public_area, Tables, game_actions + 1)

\* A request that returns before it writes anything.
Rejected(r) ==
    Outcome(r, status, current_round, current_turn, public_area, Tables, game_actions)

\* The next turn taken modulo the number of active players.
NextTurn_ActiveCount(turn, order) == (turn + 1) % Cardinality(ActivePlayers)

\* next_turn = (current_turn_idx + 1) % len(turn_order)
NextTurn(turn, order) == (turn + 1) % Len(order)

\* The end of the handler with `public_area = []` left out: the leftovers of
\* the settlement are written to the room at the round boundary.
AdvanceTurn_KeepLeftovers(user_id, br, players) ==
    LET next_turn == NextTurn(current_turn, turn_order)
        logged    == game_actions + 1
    IN  IF next_turn # 0
        THEN Outcome(Resp("action", user_id, 200, "", None),
                     status, current_round, next_turn, br.public_area, br.t, logged)
        ELSE LET Checked(t2, winner, leftovers) ==
                     IF winner # None
                     THEN Outcome(Resp("action", user_id, 200, "", winner),
                                  "finished", current_round, current_turn,
                                  br.public_area, t2, logged)
                     ELSE Outcome(Resp("action", user_id, 200, "", None),
                                  status, current_round + 1, next_turn, leftovers,
                                  t2, logged)
                 Returned(t2, leftovers) ==
                     Checked(t2, check_winner(ActivePlayers, t2.board), leftovers)
                 Settled(r) ==
                     Returned(ReturnLeftovers(
                                  UpdateEliminated(br.t, r.eliminated, players),
                                  r.public_area, players),
                              r.public_area)
             IN  Settled(resolve_public_area(br.public_area, turn_order))

\* "Move to next turn" to the end of the handler, behind a branch that went
\* through: br is what the branch left, players the rows read before it.
AdvanceTurn(user_id, br, players) ==
    LET next_turn == NextTurn(current_turn, turn_order)
        logged    == game_actions + 1
    IN  IF next_turn # 0
        THEN Outcome(Resp("action", user_id, 200, "", None),
                     status, current_round, next_turn, br.public_area, br.t, logged)
        ELSE LET Checked(t2, winner) ==
                     IF winner # None
                     THEN Outcome(Resp("action", user_id, 200, "", winner),
                                  "finished", current_round, current_turn,
                                  br.public_area, t2, logged)
                     ELSE Outcome(Resp("action", user_id, 200, "", None),
                                  status, current_round + 1, next_turn, <<>>, t2, logged)
                 Returned(t2) == Checked(t2, check_winner(ActivePlayers, t2.board))
                 Settled(r) ==
                     Returned(ReturnLeftovers(
                                  UpdateEliminated(br.t, r.eliminated, players),
                                  r.public_area, players))
             IN  Settled(resolve_public_area(br.public_area, turn_order))

\* The status test that lets a finished room through.
GameNotInProgress_OnlyWaiting == status = "waiting"

\* not room or room['status'] != 'playing' (the room exists).
GameNotInProgress == status # "playing"

\* The turn test against the head of the turn order, whatever the pointer.
NotYourTurn_FirstOnly(user_id) == turn_order[1] # user_id

\* turn_order[current_turn_idx] != user_id
NotYourTurn(user_id) == turn_order[current_turn + 1] # user_id

\* The handler: the outcome of the request of user_id for one action.
game_action(user_id, action_type, action_data) ==
    IF GameNotInProgress
    THEN Rejected(Resp("action", user_id, 400, "Game not in progress", None))
    ELSE IF NotYourTurn(user_id)
    THEN Rejected(Resp("action", user_id, 403, "Not your turn", None))
    ELSE IF user_id \notin ActivePlayers
    THEN Rejected(Resp("action", user_id, 404, "Player not found", None))
    ELSE LET players == [active |-> ActivePlayers, board |-> board, eliminated |-> eliminated]
             Branched(br) ==
                 IF br.error # ""
                 THEN Rejected(Resp("action", user_id, br.code, br.error, None))
                 ELSE AdvanceTurn(user_id, br, players)
         IN  Branched(
                 CASE action_type = "forward"   -> ForwardBranch(user_id, action_data, players)
                   [] action_type = "challenge" -> ChallengeBranch(user_id, action_data, players)
                   [] action_type = "recycle"   -> RecycleBranch(user_id, action_data, players)
                   [] action_type = "pass"      -> BranchDone(Tables, public_area)
                   [] OTHER                     -> BranchError(400, "Invalid action type"))

-----------------------------------------------------------------------------
(* The other room handlers *)

\* join_room: POST /api/rooms/<room_id>/join
join_room(user_id) ==
    IF status # "waiting"
    THEN [resp |-> Resp("join", user_id, 400, "Game already started", None),
          is_active |-> is_active]
    ELSE IF Cardinality(ActivePlayers) >= max_players
    THEN [resp |-> Resp("join", user_id, 400, "Room is full", None), is_active |-> is_active]
    ELSE IF user_id \in ActivePlayers
    THEN [resp |-> Resp("join", user_id, 200, "", None), is_active |-> is_active]
    ELSE IF is_active[user_id] # None
    THEN \* UNIQUE(room_id, user_id): the INSERT fails for a user who left
         [resp |-> Resp("join", user_id, 500, "Failed to join room", None),
          is_active |-> is_active]
    ELSE [resp |-> Resp("join", user_id, 200, "", None),
          is_active |-> [is_active EXCEPT ![user_id] = 1]]

\* db.leave_room and db.kick_player: is_active = 0 on the row, if any.
Deactivate(user_id) ==
    IF is_active[user_id] = None THEN is_active ELSE [is_active EXCEPT ![user_id] = 0]

\* The room a start request leaves, and its response.
StartOutcome(r, st, order, round, turn, area) ==
    [resp |-> r, status |-> st, turn_order |-> order, current_round |-> round,
     current_turn |-> turn, public_area |-> area]

StartRejected(r) ==
    StartOutcome(r, status, turn_order, current_round, current_turn, public_area)

\* start_game with a test of the room's status in front.
start_game_OnlyWaiting(user_id, shuffled) ==
    IF creator_id # user_id
    THEN StartRejected(Resp("start", user_id, 403, "Only creator can start game", None))
    ELSE IF status # "waiting" \/ Cardinality(ActivePlayers) < 2
    THEN StartRejected(Resp("start", user_id, 400, "Need at least 2 players", None))
    ELSE StartOutcome(Resp("start", user_id, 200, "", None), "playing", shuffled, 1, 0, <<>>)

\* start_game without the test of the caller against the room's creator.
start_game_AnyCaller(user_id, shuffled) ==
    IF Cardinality(ActivePlayers) < 2
    THEN StartRejected(Resp("start", user_id, 400, "Need at least 2 players", None))
    ELSE StartOutcome(Resp("start", user_id, 200, "", None), "playing", shuffled, 1, 0, <<>>)

\* start_game: POST /api/rooms/<room_id>/start; shuffled is the order
\* random.shuffle leaves the active players in.
start_game(user_id, shuffled) ==
    IF creator_id # user_id
    THEN StartRejected(Resp("start", user_id, 403, "Only creator can start game", None))
    ELSE IF Cardinality(ActivePlayers) < 2
    THEN StartRejected(Resp("start", user_id, 400, "Need at least 2 players", None))
    ELSE StartOutcome(Resp("start", user_id, 200, "", None), "playing", shuffled, 1, 0, <<>>)

-----------------------------------------------------------------------------
(* Values the variables of the other specifications rest at *)

NoResult == [winner |-> None, eliminated_ids |-> <<>>]
NoPiece  == Piece(None, None)
NoResp   == [op |-> "none", code |-> 0, error |-> "", winner |-> None]

GameIdle ==
    /\ status = "waiting" /\ turn_order = <<>> /\ current_round = 0 /\ current_turn = 0
    /\ public_area = <<>>
    /\ board = [u \in Users |-> <<>>] /\ eliminated = [u \in Users |-> <<>>]
    /\ is_active = [u \in Users |-> None]
    /\ game_actions = 0 /\ resp = NoResp

DuelIdle ==
    /\ dNum1 = 0 /\ dPlayer1 = None /\ dNum2 = 0 /\ dPlayer2 = None
    /\ dResult = NoResult /\ dSwapped = NoResult /\ dPc = "idle"

SettleIdle ==
    /\ sPublic = <<>> /\ sOrder = <<>> /\ sArea = <<>> /\ sElim = <<>>
    /\ sExtra = None /\ sP1 = NoPiece /\ sP2 = NoPiece /\ sPc = "idle"

RaceIdle == pending = <<>>

NoView == [call |-> "none", user |-> None, reveal_all |-> FALSE, boards |-> <<>>]

ViewIdle == view = NoView

-----------------------------------------------------------------------------
(* The duel resolver on every pair of digits and every pair of owners *)

InitDuel ==
    /\ dNum1 \in ALL_NUMBERS /\ dNum2 \in ALL_NUMBERS
    /\ dPlayer1 \in Users /\ dPlayer2 \in Users \ {dPlayer1}
    /\ dResult = NoResult /\ dSwapped = NoResult /\ dPc = "call"
    /\ GameIdle /\ SettleIdle /\ RaceIdle /\ ViewIdle

\* duel(num1, player1, num2, player2), and the same duel with the sides swapped.
DuelCall ==
    /\ dPc = "call"
    /\ dResult' = duel(dNum1, dPlayer1, dNum2, dPlayer2)
    /\ dSwapped' = duel(dNum2, dPlayer2, dNum1, dPlayer1)
    /\ dPc' = "done"
    /\ UNCHANGED <<dNum1, dPlayer1, dNum2, dPlayer2, gameVars, settleVars, raceVars, viewVars>>

NextDuel == DuelCall

SpecDuel == InitDuel /\ [][NextDuel]_vars

\* The precedence table of the duel, by digit holder: the winner ...
TableWinner(a, pa, b, pb) ==
    IF a = b THEN None
    ELSE IF {a, b} \in {{0, 6}, {0, 9}} THEN None
    ELSE IF {a, b} = {0, 8} THEN (IF a = 8 THEN pa ELSE pb)
    ELSE IF a < b THEN pa ELSE pb

\* ... and the set of owners eliminated.
TableEliminated(a, pa, b, pb) ==
    IF a = b THEN {pa, pb}
    ELSE IF {a, b} \in {{0, 6}, {0, 9}} THEN {pa, pb}
    ELSE IF {a, b} = {0, 8} THEN {IF a = 0 THEN pa ELSE pb}
    ELSE {IF a > b THEN pa ELSE pb}

\* C1: for every ordered pair of digits and distinct owners, duel returns the
\* outcome of the precedence table: equal digits or 0 against 6/9 leave no
\* winner and eliminate both; 8 beats 0; otherwise the strictly smaller digit
\* wins and only the other owner is eliminated.
C1_DuelFollowsTable ==
    dPc = "done" =>
        /\ dResult.winner = TableWinner(dNum1, dPlayer1, dNum2, dPlayer2)
        /\ Range(dResult.eliminated_ids) = TableEliminated(dNum1, dPlayer1, dNum2, dPlayer2)
        /\ Len(dResult.eliminated_ids) = Cardinality(Range(dResult.eliminated_ids))

\* An 8 met a 0 with the 0 on the first side: the mirrored special case.
C1_Witness ==
    /\ dPc = "done" /\ dNum1 = 0 /\ dNum2 = 8
    /\ dResult.winner = dPlayer2 /\ dResult.eliminated_ids = <<dPlayer1>>

\* C2: swapping the two sides of a duel changes neither the winning owner
\* nor the set of eliminated owners.
C2_DuelSymmetric ==
    dPc = "done" =>
        /\ dResult.winner = dSwapped.winner
        /\ Range(dResult.eliminated_ids) = Range(dSwapped.eliminated_ids)

\* A duel with a winner was resolved both ways round.
C2_Witness ==
    /\ dPc = "done" /\ dNum1 = 8 /\ dNum2 = 0
    /\ dResult.winner = dPlayer1 /\ dSwapped.winner = dPlayer1
    /\ dSwapped.eliminated_ids = <<dPlayer2>>

-----------------------------------------------------------------------------
(* The settlement cascade, one loop pass per step *)

\* Largest public area the settlement is started on.
MaxArea == 3

\* Digits of the pieces settled: every branch of duel is taken among them.
SettleNumbers == {0, 3, 5, 8, 9}

SettlePieces == {Piece(n, p) : n \in SettleNumbers, p \in Users}

\* Turn orders: two orders of the three users, and one of two of them (the
\* pieces of the third then sort last); the pieces range over every owner.
SettleOrders == {<<1, 2, 3>>, <<3, 1, 2>>, <<1, 2>>}

InitSettle ==
    /\ sPublic \in SeqsUpTo(SettlePieces, MaxArea)
    /\ sOrder \in SettleOrders
    /\ sArea = <<>> /\ sElim = <<>> /\ sExtra = None
    /\ sP1 = NoPiece /\ sP2 = NoPiece /\ sPc = "call"
    /\ GameIdle /\ DuelIdle /\ RaceIdle /\ ViewIdle

\* len(public_area) == 0 or == 1: return at once.
SettleEarly ==
    /\ sPc = "call" /\ Len(sPublic) < 2
    /\ sArea' = EarlyReturn(sPublic).public_area
    /\ sElim' = EarlyReturn(sPublic).eliminated
    /\ sExtra' = EarlyReturn(sPublic).extra
    /\ sPc' = "done"
    /\ UNCHANGED <<sPublic, sOrder, sP1, sP2, gameVars, duelVars, raceVars, viewVars>>

\* eliminated = []; current_area = public_area.copy(); the while test holds.
SettleCopy ==
    /\ sPc = "call" /\ Len(sPublic) >= 2
    /\ sArea' = sPublic /\ sElim' = <<>>
    /\ sPc' = "loop"
    /\ UNCHANGED <<sPublic, sOrder, sExtra, sP1, sP2, gameVars, duelVars, raceVars, viewVars>>

\* One pass of the loop body, then return or go round again.
SettleIter ==
    /\ sPc = "loop"
    /\ LET s == ResolveIter(sArea, sElim, sOrder)
       IN  /\ sArea' = s.current_area
           /\ sElim' = s.eliminated
           /\ sP1' = s.p1 /\ sP2' = s.p2
           /\ sPc' = IF LoopContinues(s.current_area) THEN "loop" ELSE "done"
    /\ UNCHANGED <<sPublic, sOrder, sExtra, gameVars, duelVars, raceVars, viewVars>>

NextSettle == SettleEarly \/ SettleCopy \/ SettleIter

SpecSettle == InitSettle /\ [][NextSettle]_vars

\* C3: the settlement of any area terminates: a pass of the loop is only
\* started on two pieces or more and leaves strictly fewer pieces in the
\* working set than it found; the pieces left over at the return belong to
\* at most one owner.
C3_SettlementTerminates ==
    [][/\ sPc = "loop" => Len(sArea) >= 2 /\ Len(sArea') < Len(sArea)
       /\ sPc' = "done" => Cardinality(Owners(sArea')) <= 1]_vars

\* Three owners met, two passes were needed, one piece is left.
C3_Witness ==
    /\ sPc = "done" /\ Len(sPublic) = 3 /\ Cardinality(Owners(sPublic)) = 3
    /\ Len(sElim) = 2 /\ Len(sArea) = 1

\* C4: the settlement of a single piece hands that piece back as the
\* leftover, eliminates nothing and names its owner as sole survivor.
C4_SinglePieceLeftOver ==
    (sPc = "done" /\ Len(sPublic) = 1) =>
        /\ sArea = sPublic
        /\ sElim = <<>>
        /\ sExtra = sPublic[1].player_id

\* Two pieces of distinct owners whose duel has a winner were settled.
TwoPieceWin ==
    /\ sPc = "done" /\ Len(sPublic) = 2
    /\ sPublic[1].player_id # sPublic[2].player_id
    /\ TableWinner(sPublic[1].number, sPublic[1].player_id,
                   sPublic[2].number, sPublic[2].player_id) # None

TwoPieceWinner ==
    IF TableWinner(sPublic[1].number, sPublic[1].player_id,
                   sPublic[2].number, sPublic[2].player_id) = sPublic[1].player_id
    THEN sPublic[1] ELSE sPublic[2]

TwoPieceLoser == IF TwoPieceWinner = sPublic[1] THEN sPublic[2] ELSE sPublic[1]

\* C5 as stated: two pieces of distinct owners, one beating the other: the
\* loser is the only elimination, nothing is left over, no sole survivor.
C5_LeftoverEmpty ==
    TwoPieceWin =>
        /\ sElim = <<TwoPieceLoser>>
        /\ sArea = <<>>
        /\ sExtra = None

\* C5 amended: two pieces of distinct owners, one beating the other: the
\* loser is the only elimination, the winning piece is the only leftover,
\* no sole survivor.
C5_WinnerLeftOver ==
    TwoPieceWin =>
        /\ sElim = <<TwoPieceLoser>>
        /\ sArea = <<TwoPieceWinner>>
        /\ sExtra = None

\* Scenario B: {5, owner 1} and {3, owner 2} under turn order [1, 2].
C5_Witness ==
    /\ sPc = "done" /\ sOrder = <<1, 2>>
    /\ sPublic = <<Piece(5, 1), Piece(3, 2)>>
    /\ sElim = <<Piece(5, 1)>> /\ sArea = <<Piece(3, 2)>>

-----------------------------------------------------------------------------
(* The room: every handler as one step *)

\* The number of game_actions rows the room is followed for.
MaxActions == 2

\* A board with the digits of placed (pairs of cell and digit) on the 18 cells.
BoardOf(placed) ==
    [c \in Cells |-> IF \E q \in placed : q[1] = c
                     THEN (CHOOSE q \in placed : q[1] = c)[2]
                     ELSE None]

\* Ten pieces, the back row free from 3B on.
DeployA ==
    BoardOf({<<"1A", 5>>, <<"2A", 0>>, <<"3A", 8>>, <<"2B", 3>>, <<"1C", 1>>,
             <<"1D", 2>>, <<"1E", 4>>, <<"1F", 6>>, <<"2C", 7>>, <<"2D", 9>>})

\* Ten pieces, the back row full.
DeployB ==
    BoardOf({<<"1A", 9>>, <<"2A", 0>>, <<"2B", 5>>, <<"1C", 8>>, <<"3A", 1>>,
             <<"3B", 2>>, <<"3C", 3>>, <<"3D", 4>>, <<"3E", 6>>, <<"3F", 7>>})

\* Nine pieces only.
DeployShort == [DeployA EXCEPT !["2D"] = None]

\* The boards a player submits: the first account deploys DeployA (and tries
\* the short board), the third DeployB; the second plays without deploying,
\* its board staying the '{}' of its room_players row.
ReadyBoards(u) ==
    CASE u = 1 -> {DeployA, DeployShort}
      [] u = 3 -> {DeployB}
      [] OTHER -> {}

\* The orders random.shuffle is followed into: ascending and descending ids.
Shuffles(S) ==
    {s \in Perms(S) : (\A i \in 1 .. Len(s) - 1 : s[i] < s[i + 1])
                      \/ (\A i \in 1 .. Len(s) - 1 : s[i] > s[i + 1])}

\* The account that leaves the room or is kicked from it.
Leavers == {2}

\* The cells and indexes the requests name.
ForwardCells   == {"1A", "2A", "2B", "1B"}
ChallengeCells == {"1A", "1B"}
RecycleCells   == {"1A", "1B"}
PieceIndexes   == {-1, 0, 1}

\* The room after create_room: waiting, the creator its only player.
Init ==
    /\ status = "waiting" /\ turn_order = <<>> /\ current_round = 0 /\ current_turn = 0
    /\ public_area = <<>>
    /\ board = [u \in Users |-> <<>>] /\ eliminated = [u \in Users |-> <<>>]
    /\ is_active = [u \in Users |-> IF u = creator_id THEN 1 ELSE None]
    /\ game_actions = 0 /\ resp = NoResp
    /\ DuelIdle /\ SettleIdle /\ RaceIdle /\ ViewIdle

JoinRoom(u) ==
    /\ resp' = join_room(u).resp
    /\ is_active' = join_room(u).is_active
    /\ UNCHANGED <<roomVars, board, eliminated, game_actions, duelVars, settleVars, raceVars, viewVars>>

\* leave_room: POST /api/rooms/<room_id>/leave
LeaveRoom(u) ==
    /\ resp' = Resp("leave", u, 200, "", None)
    /\ is_active' = Deactivate(u)
    /\ UNCHANGED <<roomVars, board, eliminated, game_actions, duelVars, settleVars, raceVars, viewVars>>

\* kick_player: POST /api/rooms/<room_id>/kick/<target_id>
KickPlayer(u, target_id) ==
    /\ IF creator_id # u
       THEN /\ resp' = Resp("kick", u, 403, "Only creator can kick players", None)
            /\ UNCHANGED is_active
       ELSE /\ resp' = Resp("kick", u, 200, "", None)
            /\ is_active' = Deactivate(target_id)
    /\ UNCHANGED <<roomVars, board, eliminated, game_actions, duelVars, settleVars, raceVars, viewVars>>

\* player_ready: POST /api/rooms/<room_id>/ready
PlayerReady(u, b) ==
    /\ IF ~is_valid_board(b)
       THEN /\ resp' = Resp("ready", u, 400, "Board must have exactly 10 numbers placed", None)
            /\ UNCHANGED <<board, eliminated>>
       ELSE /\ resp' = Resp("ready", u, 200, "", None)
            /\ board' = update_player_board(Tables, u, b, <<>>).board
            /\ eliminated' = update_player_board(Tables, u, b, <<>>).eliminated
    /\ UNCHANGED <<roomVars, is_active, game_actions, duelVars, settleVars, raceVars, viewVars>>

StartGame(u, shuffled) ==
    LET Answered(o) ==
            /\ resp' = o.resp
            /\ status' = o.status
            /\ turn_order' = o.turn_order
            /\ current_round' = o.current_round
            /\ current_turn' = o.current_turn
            /\ public_area' = o.public_area
            /\ UNCHANGED <<playerVars, game_actions, duelVars, settleVars, raceVars, viewVars>>
    IN  Answered(start_game(u, shuffled))

\* One request to game_action.
GameAction(u, action_type, action_data) ==
    LET Answered(o) ==
            /\ resp' = o.resp
            /\ status' = o.status
            /\ current_round' = o.current_round
            /\ current_turn' = o.current_turn
            /\ public_area' = o.public_area
            /\ board' = o.board
            /\ eliminated' = o.eliminated
            /\ game_actions' = o.game_actions
            /\ UNCHANGED <<turn_order, is_active, duelVars, settleVars, raceVars, viewVars>>
    IN  Answered(game_action(u, action_type, action_data))

Forward(u, cell_id) == GameAction(u, "forward", ActionData(cell_id, None, "", 0))

Challenge(u, target_id, target_cell) ==
    GameAction(u, "challenge", ActionData("", target_id, target_cell, 0))

Recycle(u, piece_index, target_cell) ==
    GameAction(u, "recycle", ActionData("", None, target_cell, piece_index))

Pass(u) == GameAction(u, "pass", ActionData("", None, "", 0))

\* An action_type the handler does not know.
OtherAction(u) == GameAction(u, "other", ActionData("", None, "", 0))

\* The player at the turn pointer of a playing room. Requests of the others,
\* and requests to a room that is not playing, are all answered alike
\* whatever they ask for: Next makes them as pass.
Mover == IF status = "playing" THEN {turn_order[current_turn + 1]} ELSE {}

\* The room is followed until game_actions holds MaxActions rows: a request
\* is made when it does not add a row beyond that.
Followed == game_actions' <= MaxActions

Next ==
    \/ \E u \in Users : JoinRoom(u)
    \/ \E u \in Leavers : LeaveRoom(u)
    \/ \E u \in Users, target_id \in Leavers : KickPlayer(u, target_id)
    \/ \E u \in Users : \E b \in ReadyBoards(u) : PlayerReady(u, b)
    \/ \E u \in Users, shuffled \in Shuffles(ActivePlayers) : StartGame(u, shuffled)
    \/ \E u \in Mover, cell_id \in ForwardCells : Forward(u, cell_id) /\ Followed
    \/ \E u \in Mover, target_id \in Users, target_cell \in ChallengeCells :
           Challenge(u, target_id, target_cell) /\ Followed
    \/ \E u \in Mover, piece_index \in PieceIndexes, target_cell \in RecycleCells :
           Recycle(u, piece_index, target_cell) /\ Followed
    \/ \E u \in Users : Pass(u) /\ Followed
    \/ \E u \in Mover : OtherAction(u) /\ Followed

Spec == Init /\ [][Next]_vars

-----------------------------------------------------------------------------
(* Claims about the room *)

\* Every request to game_action that Next makes, as (action_type, action_data).
Requests ==
    {<<"forward", ActionData(c, None, "", 0)>> : c \in ForwardCells}
    \cup {<<"challenge", ActionData("", t, c, 0)>> : t \in Users, c \in ChallengeCells}
    \cup {<<"recycle", ActionData("", None, c, i)>> : c \in RecycleCells, i \in PieceIndexes}
    \cup {<<"pass", ActionData("", None, "", 0)>>, <<"other", ActionData("", None, "", 0)>>}

\* The step appended a row to game_actions: an action was accepted.
ActionAccepted == game_actions' = game_actions + 1

\* C6: while the room is playing, an action of any kind from a player other
\* than turn_order[current_turn] is rejected with "Not your turn" and
\* changes nothing of the room, the boards, the eliminated lists or the log.
C6_OnlyCurrentPlayerActs ==
    status = "playing" =>
        \A u \in Users \ {turn_order[current_turn + 1]} : \A rq \in Requests :
            game_action(u, rq[1], rq[2]) = Rejected(Resp("action", u, 403, "Not your turn", None))

\* A player had such a request turned down in the second turn of a round.
C6_Witness ==
    /\ status = "playing" /\ current_turn = 1 /\ game_actions = 1
    /\ BoardCount(board[1]) > 0
    /\ resp = Resp("action", None, 403, "Not your turn", None)

\* C7: while the room is waiting or finished, every action of every player
\* is rejected with "Game not in progress" and changes nothing of the room,
\* the boards, the eliminated lists or the log.
C7_NoActionOutsidePlaying ==
    status \in {"waiting", "finished"} =>
        \A u \in Users : \A rq \in Requests :
            game_action(u, rq[1], rq[2])
                = Rejected(Resp("action", u, 400, "Game not in progress", None))

\* An action was turned down in a finished room.
C7_Witness ==
    /\ status = "finished"
    /\ resp = Resp("action", None, 400, "Game not in progress", None)

\* C8: the phase only moves waiting -> playing -> finished: a finished room
\* stays finished, a playing room never goes back to waiting, and a start
\* request on a playing room leaves the room as it is.
C8_PhaseOnlyForward ==
    [][/\ status = "finished" => status' = "finished"
       /\ status = "playing" => status' # "waiting"
       /\ (status = "playing" /\ resp'.op = "start") => UNCHANGED roomVars]_vars

\* C9: an accepted action that does not end the game moves the turn pointer
\* to (current_turn + 1) mod the length of the turn order, and adds one to
\* the round exactly when the new pointer is 0; no accepted action lowers
\* the round, and the pointer of a started room stays inside the turn order.
C9_TurnAdvance ==
    [][/\ (ActionAccepted /\ status' = "playing") =>
              /\ current_turn' = (current_turn + 1) % Len(turn_order)
              /\ current_round' = IF current_turn' = 0
                                  THEN current_round + 1 ELSE current_round
       /\ ActionAccepted => current_round' >= current_round
       /\ status' # "waiting" =>
              (0 <= current_turn' /\ current_turn' < Len(turn_order'))]_vars

\* A round of two players was completed and the game went on.
C9_Witness ==
    /\ status = "playing" /\ Len(turn_order) = 2
    /\ current_round = 2 /\ current_turn = 0 /\ game_actions = 2
    /\ resp = Resp("action", None, 200, "", None)

\* C10: an accepted forward of the current player on an occupied row-1 cell
\* leaves that cell empty on the player's stored board, and (unless the
\* action completes the round, whose settlement empties the area) leaves
\* the public area with exactly one more entry, of that digit and player.
C10_ForwardIntoPublic ==
    [][\A u \in Users : \A c \in {"1A", "1B"} :
          (/\ status = "playing" /\ turn_order[current_turn + 1] = u
           /\ GetCell(board[u], c) # None
           /\ ActionAccepted /\ Forward(u, c))
          => /\ board'[u][c] = None
             /\ current_turn' # 0 =>
                    public_area' = Append(public_area, Piece(board[u][c], u))]_vars

-----------------------------------------------------------------------------
(* A game in its late rounds: the handler game_action alone *)

\* The number of game_actions rows the late game is followed for.
MaxPlay == 3

\* The round the late game is taken up in. Nine rounds are enough for any
\* board below to come about from a deployment of ten: a challenge on a piece
\* while the public area is empty takes the piece off the board and records
\* nothing (the settlement of a single piece drops it), and pass fills the
\* turns that remove nothing.
PlayRound == 10

\* Boards of the first account late in a game: one piece, three pieces.
LateA1 == BoardOf({<<"1A", 5>>})
LateA3 == BoardOf({<<"1A", 5>>, <<"2A", 0>>, <<"2B", 3>>})

\* Boards of the third account late in a game: one piece, two pieces.
LateB1 == BoardOf({<<"1A", 9>>})
LateB2 == BoardOf({<<"1A", 3>>, <<"2B", 9>>})

\* The second account never deployed: its board is the '{}' of its row.
PlayBoards(u) ==
    CASE u = 1 -> {LateA1, LateA3}
      [] u = 3 -> {LateB1, LateB2}
      [] OTHER -> {<<>>}

\* The turn orders of the late game.
PlayOrders == {<<1, 3>>, <<3, 1>>, <<3, 2, 1>>}

\* The game_actions rows of the rounds played before PlayRound.
PlayedBefore == (PlayRound - 1) * Len(turn_order)

InitPlay ==
    /\ status = "playing" /\ turn_order \in PlayOrders
    /\ current_round = PlayRound /\ current_turn = 0
    /\ public_area = <<>>
    /\ \E b1 \in PlayBoards(1), b2 \in PlayBoards(2), b3 \in PlayBoards(3) :
           board = [u \in Users |->
                       IF u \notin Range(turn_order) THEN <<>>
                       ELSE CASE u = 1 -> b1 [] u = 2 -> b2 [] OTHER -> b3]
    /\ eliminated = [u \in Users |-> <<>>]
    /\ is_active = [u \in Users |-> IF u \in Range(turn_order) THEN 1 ELSE None]
    /\ game_actions = PlayedBefore
    /\ resp = Resp("action", None, 200, "", None)
    /\ DuelIdle /\ SettleIdle /\ RaceIdle /\ ViewIdle

\* A request is made when it does not add a row beyond MaxPlay new ones.
PlayFollowed == game_actions' <= PlayedBefore + MaxPlay

NextPlay ==
    \/ \E u \in Mover, cell_id \in ForwardCells : Forward(u, cell_id) /\ PlayFollowed
    \/ \E u \in Mover, target_id \in Users, target_cell \in ChallengeCells :
           Challenge(u, target_id, target_cell) /\ PlayFollowed
    \/ \E u \in Mover, piece_index \in PieceIndexes, target_cell \in RecycleCells :
           Recycle(u, piece_index, target_cell) /\ PlayFollowed
    \/ \E u \in Users : Pass(u) /\ PlayFollowed
    \/ \E u \in Mover : OtherAction(u) /\ PlayFollowed

SpecPlay == InitPlay /\ [][NextPlay]_vars

\* Player u has no piece in the public area.
NoneInPublic(u) == \A i \in 1 .. Len(public_area) : public_area[i].player_id # u

\* The step eliminated the one piece player u had left: u had a single piece
\* on the board and none in the public area, and the digit of that piece was
\* appended to u's eliminated list.
LastPieceEliminated(u) ==
    /\ BoardCount(board[u]) = 1
    /\ NoneInPublic(u)
    /\ \E c \in DOMAIN board[u] :
           /\ board[u][c] # None
           /\ eliminated'[u] = Append(eliminated[u], board[u][c])

\* C11: when an accepted action completes a round (the moment of the win
\* check) and the action and its eliminations take away the last piece of a
\* player, so that the player has nothing left on the board, while exactly
\* one other player of the game has occupied cells, the room becomes
\* finished and that other player is reported as the winner.
C11_SoleSurvivorWins ==
    [][\A u \in Users : \A w \in Users \ {u} :
          (/\ status = "playing" /\ ActionAccepted
           /\ NextTurn(current_turn, turn_order) = 0
           /\ {u, w} \subseteq Range(turn_order)
           /\ LastPieceEliminated(u)
           /\ BoardCount(board'[w]) > 0
           /\ \A x \in Range(turn_order) \ {u, w} : BoardCount(board'[x]) = 0)
          => (status' = "finished" /\ resp'.winner = w)]_vars

-----------------------------------------------------------------------------
(* Overlapping requests to game_action. The handler takes no lock and every  *)
(* Database method opens, commits and closes a connection of its own, so a   *)
(* request is a read of the room and its players followed, later, by its    *)
(* writes; what it writes is fixed by what it read.                          *)

\* The number of requests that are accepted in all.
MaxRace == 2

\* A request that passed the checks on the rows it read: the outcome the
\* handler computed from them, and the turn_order it read (written back with
\* every update_room_game_state).
Pending(user_id, action_type, action_data, o) ==
    [user_id |-> user_id, action_type |-> action_type, action_data |-> action_data,
     o |-> o, turn_order |-> turn_order]

\* The request ends in update_room_game_state, in a branch or at the end of
\* the handler: all but a pass that finds a winner.
RoomWritten(p) == ~(p.action_type = "pass" /\ p.o.status = "finished")

\* The request reads the room and the players. A request that fails a check
\* is answered at once and writes nothing.
Receive(u, action_type, action_data) ==
    LET Read(o) ==
            IF o.resp.code # 200
            THEN /\ resp' = o.resp
                 /\ UNCHANGED <<roomVars, playerVars, game_actions, pending>>
            ELSE /\ game_actions + Len(pending) < PlayedBefore + MaxRace
                 /\ pending' = Append(pending, Pending(u, action_type, action_data, o))
                 /\ UNCHANGED gameVars
    IN  /\ Read(game_action(u, action_type, action_data))
        /\ UNCHANGED <<duelVars, settleVars, viewVars>>

\* The request writes: the room_players rows it updates, the room's game
\* state, the status when it found a winner, one game_actions row.
Commit(i) ==
    LET Write(p) ==
            /\ resp' = p.o.resp
            /\ board' = [u \in Users |->
                            IF u \in p.o.written THEN p.o.board[u] ELSE board[u]]
            /\ eliminated' = [u \in Users |->
                            IF u \in p.o.written THEN p.o.eliminated[u] ELSE eliminated[u]]
            /\ status' = IF p.o.status = "finished" THEN "finished" ELSE status
            /\ IF RoomWritten(p)
               THEN /\ turn_order' = p.turn_order
                    /\ current_round' = p.o.current_round
                    /\ current_turn' = p.o.current_turn
                    /\ public_area' = p.o.public_area
               ELSE UNCHANGED <<turn_order, current_round, current_turn, public_area>>
            /\ game_actions' = game_actions + 1
    IN  /\ i \in 1 .. Len(pending)
        /\ Write(pending[i])
        /\ pending' = RemoveAt(pending, i)
        /\ UNCHANGED <<is_active, duelVars, settleVars, viewVars>>

NextRace ==
    \/ \E u \in Users, rq \in Requests : Receive(u, rq[1], rq[2])
    \/ \E i \in 1 .. MaxRace : Commit(i)

SpecRace == InitPlay /\ [][NextRace]_vars

\* The step leaves the room, the boards, the eliminated lists, the log and
\* the response as the handler run alone on the present state leaves them.
AppliedAlone(user_id, action_type, action_data) ==
    LET Same(o) ==
            /\ resp' = o.resp
            /\ status' = o.status
            /\ current_round' = o.current_round
            /\ current_turn' = o.current_turn
            /\ public_area' = o.public_area
            /\ board' = o.board
            /\ eliminated' = o.eliminated
            /\ game_actions' = o.game_actions
            /\ UNCHANGED turn_order
    IN  Same(game_action(user_id, action_type, action_data))

\* C12: requests to one room that overlap are serialized: the writes of every
\* request leave the room as the request applied alone, in the order of the
\* writes, leaves it; so of two requests that read the same current_turn only
\* one is applied, and no write is lost.
C12_Serialized ==
    [][\A i \in 1 .. Len(pending) :
          Commit(i) =>
              AppliedAlone(pending[i].user_id, pending[i].action_type,
                           pending[i].action_data)]_vars

-----------------------------------------------------------------------------
(* Claims about the start of a game and about the bookkeeping of settlement *)

\* C13: a start request succeeds only for the creator and only with at least
\* two active players; a successful start leaves the room playing, with a
\* turn order that is a permutation of exactly the active players, round 1,
\* turn 0 and an empty public area; with fewer than two active players the
\* request is rejected and the room is left as it was (a waiting room stays
\* waiting).
C13_StartGame ==
    [][resp'.op = "start" =>
       \A u \in Users : \A shuffled \in Shuffles(ActivePlayers) :
          StartGame(u, shuffled) =>
              /\ resp'.code = 200 =>
                     /\ u = creator_id
                     /\ Cardinality(ActivePlayers) >= 2
                     /\ status' = "playing"
                     /\ turn_order' \in Perms(ActivePlayers)
                     /\ current_round' = 1 /\ current_turn' = 0
                     /\ public_area' = <<>>
              /\ Cardinality(ActivePlayers) < 2 =>
                     /\ resp'.code # 200
                     /\ UNCHANGED roomVars]_vars

\* Three players were started from the waiting room.
C13_Witness ==
    /\ resp = Resp("start", None, 200, "", None)
    /\ status = "playing" /\ Len(turn_order) = 3 /\ Range(turn_order) = ActivePlayers
    /\ current_round = 1 /\ current_turn = 0 /\ public_area = <<>> /\ game_actions = 0

\* The digits of owner x in a list of (digit, owner) entries, in order.
DigitsOf(x, entries) ==
    LET Mine(own) == [i \in 1 .. Len(own) |-> own[i].number]
    IN  Mine(SelectSeq(entries, LAMBDA e : e.player_id = x))

\* The eliminations of the settlement at the end of a round on area (none
\* when the action does not complete the round).
BoundaryEliminated(area) ==
    IF NextTurn(current_turn, turn_order) = 0
    THEN resolve_public_area(area, turn_order).eliminated
    ELSE <<>>

\* The eliminations of the request: those of the settlement its challenge
\* triggers, then those of the settlement at the end of the round.
ChallengeEliminated(target_id, target_cell) ==
    LET Both(r) == r.eliminated \o BoundaryEliminated(r.public_area)
    IN  Both(resolve_public_area(
                 Append(public_area, Piece(GetCell(board[target_id], target_cell), target_id)),
                 turn_order))

\* Every owner's list is its old value followed by its digits in entries.
EliminatedAppended(entries) ==
    \A x \in Users : eliminated'[x] = eliminated[x] \o DigitsOf(x, entries)

\* C14: every (digit, owner) elimination of a settlement pass, triggered by
\* a challenge or by the end of the round, is appended to the stored
\* eliminated list of its owner: after an accepted challenge, and after an
\* accepted pass, every owner's list is its previous value followed by the
\* owner's digits eliminated in the request.
C14_EliminationsRecorded ==
    [][/\ \A u \in Mover : \A target_id \in Users : \A target_cell \in ChallengeCells :
              (ActionAccepted /\ Challenge(u, target_id, target_cell))
              => EliminatedAppended(ChallengeEliminated(target_id, target_cell))
       /\ \A u \in Mover :
              (ActionAccepted /\ Pass(u))
              => EliminatedAppended(BoundaryEliminated(public_area))]_vars

\* The board with the digits placed one after the other, each in the first
\* free cell of row 3 in column order (dropped when the row is full).
RECURSIVE PlaceAll(_, _)
PlaceAll(b, digits) ==
    IF digits = <<>> THEN b
    ELSE PlaceAll(PlaceInBackRow(b, digits[1]), Tail(digits))

\* The boards after a settlement at the end of the round on area: after is
\* the boards as the action left them; each owner of a leftover has its
\* leftovers back on that board.
LeftoversReturned(after, area) ==
    LET Back(r) ==
            \A x \in ActivePlayers :
                DigitsOf(x, r.public_area) # <<>>
                => board'[x] = PlaceAll(after[x], DigitsOf(x, r.public_area))
    IN  Back(resolve_public_area(area, turn_order))

\* C15: at the end of a round every leftover piece goes back to its owner, in
\* the first free row-3 cell of the owner's board in column order, and every
\* other cell keeps the value it had after the action that completed the
\* round: so it is after an accepted forward from a row-1 cell that completes
\* the round (the source cell stays empty) and after an accepted pass that
\* completes it.
C15_LeftoversReturned ==
    [][/\ \A u \in Mover : \A c \in {"1A", "1B"} :
              (/\ ActionAccepted /\ NextTurn(current_turn, turn_order) = 0
               /\ GetCell(board[u], c) # None /\ Forward(u, c))
              => LeftoversReturned([board EXCEPT ![u][c] = None],
                                   Append(public_area, Piece(board[u][c], u)))
       /\ \A u \in Mover :
              (ActionAccepted /\ NextTurn(current_turn, turn_order) = 0 /\ Pass(u))
              => LeftoversReturned(board, public_area)]_vars

\* The answer to a pass: the request is accepted and either the turn pointer
\* is at the next seat or the request has ended the game.
PassAdvances(o) ==
    /\ o.resp.code = 200
    /\ \/ o.status = "finished"
       \/ o.current_turn = NextTurn(current_turn, turn_order)

\* C16: in every state where the room is playing, a pass of the player at
\* turn_order[current_turn] is accepted and advances the turn, also after
\* a player has left the room or has been kicked from it.
C16_PassAlwaysLegal ==
    status = "playing" =>
        \A u \in Mover : PassAdvances(game_action(u, "pass", ActionData("", None, "", 0)))

-----------------------------------------------------------------------------
(* Claims about the pairing of the settlement *)

\* The entries the loop pass just made has appended to the eliminated list.
NewlyEliminated == {sElim'[k] : k \in Len(sElim) + 1 .. Len(sElim')}

\* The loop pass just made put a winner back: two pieces were removed and one
\* appended.
WinnerPutBack == Len(sArea') = Len(sArea) - 1

\* C17: the two pieces a loop pass of the settlement takes from the head of
\* the turn-order ranking never have the same player_id, and no piece is
\* both eliminated by and the surviving winner of the same duel.
C17_DuelsBetweenOwners ==
    [][sPc = "loop" =>
          /\ sP1'.player_id # sP2'.player_id
          /\ WinnerPutBack => sArea'[Len(sArea')] \notin NewlyEliminated]_vars

\* The pieces of a list as a multiset: each piece with the number of times
\* it is in the list.
PieceBag(s) == [x \in Range(s) |-> Cardinality({i \in DOMAIN s : s[i] = x})]

\* Every array order of the pieces of area.
Reorderings(area) ==
    {[i \in DOMAIN area |-> area[p[i]]] : p \in Perms(DOMAIN area)}

\* C18: the settlement of any permutation of a public area, under the same
\* turn order, returns the same multiset of leftover pieces and the same
\* multiset of eliminated pieces as the settlement of the area itself.
C18_OrderIndependent ==
    sPc = "done" =>
        \A q \in Reorderings(sPublic) :
            LET Same(r) == /\ PieceBag(r.public_area) = PieceBag(sArea)
                           /\ PieceBag(r.eliminated) = PieceBag(sElim)
            IN  Same(resolve_public_area(q, sOrder))

-----------------------------------------------------------------------------
(* Claims about the movement rule *)

\* The row of each cell, 1 to 3, and for the cells of rows 2 and 3 the cell
\* of the same column one row nearer to the public area.
RowOf == [c \in Cells |-> get_cell_position(c)[1] + 1]
SameColumnRowBefore ==
    [c \in {x \in Cells : RowOf[x] > 1} |->
        get_cell_id(RowOf[c] - 2, get_cell_position(c)[2])]

\* The forward branch alone, for the request of u to move the piece on c.
MoveItself(u, c) ==
    ForwardBranch(u, ActionData(c, None, "", 0),
                  [active |-> ActivePlayers, board |-> board, eliminated |-> eliminated])

\* What the movement rule asks of the branch result br for cell c of u.
MovementRule(u, c, br) ==
    LET b == board[u]
    IN  /\ GetCell(b, c) = None =>
              /\ br.code = 400 /\ br.error = "No piece at this position"
              /\ br.t.board = board /\ br.public_area = public_area
        /\ (GetCell(b, c) # None /\ RowOf[c] \in {2, 3}
            /\ GetCell(b, SameColumnRowBefore[c]) # None) =>
              /\ br.code = 400 /\ br.error = "Target cell is occupied"
              /\ br.t.board = board /\ br.public_area = public_area
        /\ (GetCell(b, c) # None /\ RowOf[c] \in {2, 3}
            /\ GetCell(b, SameColumnRowBefore[c]) = None) =>
              /\ br.error = ""
              /\ br.t.board[u][SameColumnRowBefore[c]] = b[c]
              /\ br.t.board[u][c] = None
              /\ \A o \in Cells \ {c, SameColumnRowBefore[c]} :
                     GetCell(br.t.board[u], o) = GetCell(b, o)
              /\ \A x \in Users \ {u} : br.t.board[x] = board[x]
              /\ br.public_area = public_area
        /\ (GetCell(b, c) # None /\ RowOf[c] = 1) =>
              /\ br.error = ""
              /\ br.t.board[u] = [b EXCEPT ![c] = None]
              /\ \A x \in Users \ {u} : br.t.board[x] = board[x]
              /\ br.public_area = Append(public_area, Piece(b[c], u))

\* The request of u to move the piece on c, in the middle of a round, is
\* answered with what the forward branch left.
AnsweredAsMoved(u, c, br, o) ==
    /\ o.resp.error = br.error
    /\ o.board = br.t.board
    /\ o.public_area = br.public_area
    /\ br.error = "" => (o.resp.code = 200 /\ o.game_actions = game_actions + 1)
    /\ br.error # "" => (o.resp.code = 400 /\ o.game_actions = game_actions)

\* C19: forward on a cell with no piece fails ("No piece at this position");
\* forward on an occupied cell of row 2 or 3 whose front cell (same column,
\* row - 1) is occupied fails ("Target cell is occupied"); otherwise the
\* digit moves to the front cell, the source cell becomes empty, and every
\* other cell of the acting player's board, every other player's board and
\* the public area are unchanged by the move itself (from row 1 the front
\* of the cell is the public area, which gains the piece). In every state
\* of a playing room the rule holds of the forward branch for every cell of
\* the player at the turn pointer, and in the middle of a round the
\* handler answers and writes what the branch left.
C19_ForwardRule ==
    status = "playing" =>
        \A u \in Mover \cap ActivePlayers : \A c \in Cells :
            /\ MovementRule(u, c, MoveItself(u, c))
            /\ NextTurn(current_turn, turn_order) # 0 =>
                   AnsweredAsMoved(u, c, MoveItself(u, c),
                                   game_action(u, "forward", ActionData(c, None, "", 0)))

\* The first player has moved the 3 from 2B to the free cell 1B.
C19_Witness ==
    /\ status = "playing" /\ game_actions = 1 /\ current_turn = 1
    /\ resp = Resp("action", None, 200, "", None)
    /\ board[1] = [DeployA EXCEPT !["2B"] = None, !["1B"] = 3]
    /\ public_area = <<>>

-----------------------------------------------------------------------------
(* Claims about the round boundary *)

\* C20: in every state where the room is playing and current_turn = 0 (the
\* game has just started or a round has just rolled over), the public area
\* stored with the room is empty.
C20_PublicClearedAtBoundary ==
    (status = "playing" /\ current_turn = 0) => public_area = <<>>

\* A round of two forwards into the public area has rolled over: the duel
\* eliminated the 9 and left the 5 over, and the stored area is empty.
C20_Witness ==
    /\ status = "playing" /\ current_round = 2 /\ current_turn = 0
    /\ game_actions = 2 /\ turn_order = <<1, 3>>
    /\ eliminated[3] = <<9>>
    /\ public_area = <<>>

-----------------------------------------------------------------------------
(* Claims about the win check *)

\* The players of the room that have at least one occupied cell on the board
\* stored behind the step.
WithPiecesAfter == {x \in ActivePlayers : BoardCount(board'[x]) > 0}

\* C21: the room becomes finished only in a step behind which exactly one
\* player has an occupied board cell, and the winner reported is that
\* player; when a request completes a round and leaves no player or two or
\* more players with occupied cells, no winner is reported and the room
\* stays playing.
C21_WinnerIsSoleSurvivor ==
    [][/\ (status # "finished" /\ status' = "finished") =>
              /\ status = "playing" /\ ActionAccepted
              /\ WithPiecesAfter = {resp'.winner}
       /\ (status = "playing" /\ ActionAccepted
           /\ NextTurn(current_turn, turn_order) = 0
           /\ Cardinality(WithPiecesAfter) # 1) =>
              /\ status' = "playing"
              /\ resp'.winner = None]_vars

\* The first player has won: the third player's only piece was challenged
\* into the public area and the round has ended.
C21_Witness ==
    /\ status = "finished" /\ resp.winner = 1
    /\ BoardCount(board[1]) > 0 /\ BoardCount(board[3]) = 0
    /\ turn_order = <<1, 3>>

-----------------------------------------------------------------------------
(* Recycle: a room of five accounts taken up in the middle of a round *)

\* Accepted game actions followed behind the round the room is taken up in.
MaxRecycle == 1

\* The board of the third account behind challenges on its 1A (digit 3) and
\* its 1B (digit 5): the 9 on 2B is left.
LateB0 == BoardOf({<<"2B", 9>>})

\* Rooms created for five players, late in a game, at the turn of the third
\* account. Accounts 4 and 5 have played their turn of the round and then
\* left the room (leave_room only clears is_active): their ids stay in the
\* turn order and their pieces in the public area. A player's own piece gets
\* into the public area before its turn only through a challenge, which
\* settles the area at once, so own pieces come first in the area and the
\* forwards of later players follow them.
\*   mid-round, own piece first: 4 forwards 9, 1 challenges the 3 of 3 (the 3
\*     wins), 5 forwards 7;
\*   end of round, two own pieces: 4 forwards 9, 2 challenges the 3 of 3,
\*     5 forwards 9, 1 challenges the 5 of 3 (9 of 5 meets the 3 and loses);
\*   mid-round, one own piece: 4 forwards 9, 1 challenges the 3 of 3;
\*   mid-round, no own piece: 5 forwards 7.
RecycleRooms ==
    {[turn_order |-> <<4, 1, 5, 3, 2>>, current_turn |-> 3,
      public_area |-> <<Piece(3, 3), Piece(7, 5)>>],
     [turn_order |-> <<4, 2, 5, 1, 3>>, current_turn |-> 4,
      public_area |-> <<Piece(5, 3), Piece(3, 3)>>],
     [turn_order |-> <<4, 1, 3, 2>>, current_turn |-> 2,
      public_area |-> <<Piece(3, 3)>>],
     [turn_order |-> <<5, 3, 1>>, current_turn |-> 1,
      public_area |-> <<Piece(7, 5)>>]}

\* The indexes and cells the recycle requests name: "4A" is no key of a board.
RecycleIndexes == {-3, -2, -1, 0, 1, 2}
RecycleTargets == {"1A", "1B", "2B", "4A"}

InitRecycle ==
    /\ status = "playing"
    /\ \E room \in RecycleRooms :
           /\ turn_order = room.turn_order
           /\ current_turn = room.current_turn
           /\ public_area = room.public_area
    /\ current_round = PlayRound
    /\ \E b1 \in PlayBoards(1) :
           board = [u \in Users |->
                       IF u \notin Range(turn_order) THEN <<>>
                       ELSE CASE u = 1 -> b1 [] u = 3 -> LateB0 [] OTHER -> <<>>]
    /\ eliminated = [u \in Users |-> <<>>]
    /\ is_active = [u \in Users |-> IF u \in Range(turn_order) THEN 1 ELSE None]
    /\ game_actions = PlayedBefore + current_turn
    /\ resp = Resp("action", None, 200, "", None)
    /\ DuelIdle /\ SettleIdle /\ RaceIdle /\ ViewIdle

\* The room is followed to the end of the round it is taken up in and
\* MaxRecycle accepted actions into the next round.
RecycleFollowed == game_actions' <= PlayedBefore + Len(turn_order) + MaxRecycle

NextRecycle ==
    \/ \E u \in Mover, piece_index \in RecycleIndexes, target_cell \in RecycleTargets :
           Recycle(u, piece_index, target_cell) /\ RecycleFollowed
    \/ \E u \in Mover, cell_id \in ForwardCells : Forward(u, cell_id) /\ RecycleFollowed
    \/ \E u \in Mover, target_id \in Users, target_cell \in ChallengeCells :
           Challenge(u, target_id, target_cell) /\ RecycleFollowed
    \/ \E u \in Users : Pass(u) /\ RecycleFollowed
    \/ \E u \in Mover : OtherAction(u) /\ RecycleFollowed

SpecRecycle == InitRecycle /\ [][NextRecycle]_vars

-----------------------------------------------------------------------------
(* Claims about recycle *)

\* The positions in the public area of the pieces of u, and the position of
\* the piece at (0-based) index i among them.
OwnPositions(u) == {k \in 1 .. Len(public_area) : public_area[k].player_id = u}
OwnAt(u, i) ==
    CHOOSE k \in OwnPositions(u) : Cardinality({j \in OwnPositions(u) : j < k}) = i

\* The recycle branch alone, for the request of u for its piece i and cell c.
RecycleItself(u, i, c) ==
    RecycleBranch(u, ActionData("", None, c, i),
                  [active |-> ActivePlayers, board |-> board, eliminated |-> eliminated])

\* What the recycle rule asks of the branch result br.
RecycleRule(u, i, c, br) ==
    LET b == board[u]
        n == Cardinality(OwnPositions(u))
    IN  /\ (n = 0 \/ GetCell(b, c) # None \/ c \notin DOMAIN b) =>
              /\ br.error # "" /\ br.code # 200
              /\ br.t.board = board /\ br.public_area = public_area
        /\ (br.error = "" /\ i \in 0 .. n - 1) =>
              /\ c \in DOMAIN b /\ b[c] = None
              /\ br.public_area = RemoveAt(public_area, OwnAt(u, i))
              /\ br.t.board[u] = [b EXCEPT ![c] = public_area[OwnAt(u, i)].number]
              /\ \A x \in Users \ {u} : br.t.board[x] = board[x]
        /\ (n > 0 /\ i \in 0 .. n - 1 /\ c \in DOMAIN b /\ b[c] = None) => br.error = ""

\* The request, in the middle of a round, is answered with what the recycle
\* branch left.
AnsweredAsRecycled(br, o) ==
    /\ o.resp.error = br.error
    /\ o.board = br.t.board
    /\ o.public_area = br.public_area
    /\ br.error = "" => (o.resp.code = 200 /\ o.game_actions = game_actions + 1)
    /\ br.error # "" => (o.resp.code = br.code /\ o.game_actions = game_actions)

\* C22: an accepted recycle of the player at the turn pointer removes from
\* the public area exactly the piece at the given index (0 .. n-1) among
\* that player's own pieces there, puts its digit on the named cell, which
\* was empty, and leaves the other entries of the public area in their
\* order and every other board cell unchanged; a recycle is rejected when
\* the caller has no piece in the public area or the named cell is missing
\* or occupied. In every state the rule holds of the recycle branch, and in
\* the middle of a round the handler answers and writes what the branch
\* left.
C22_RecycleRule ==
    status = "playing" =>
        \A u \in Mover \cap ActivePlayers :
            \A i \in RecycleIndexes : \A c \in RecycleTargets :
                /\ RecycleRule(u, i, c, RecycleItself(u, i, c))
                /\ NextTurn(current_turn, turn_order) # 0 =>
                       AnsweredAsRecycled(RecycleItself(u, i, c),
                           game_action(u, "recycle", ActionData("", None, c, i)))

\* The third player has taken its 3 back onto 1A; the 7 of the fifth stays
\* in the public area.
C22_Witness ==
    /\ status = "playing" /\ turn_order = <<4, 1, 5, 3, 2>> /\ current_turn = 4
    /\ game_actions = PlayedBefore + 4
    /\ public_area = <<Piece(7, 5)>>
    /\ board[3] = [LateB0 EXCEPT !["1A"] = 3]

\* C23: a recycle of a player that has n >= 1 pieces in the public area,
\* with a piece index that is not in 0 .. n-1 (negative indexes included),
\* fails with "Invalid piece index" and removes no piece from the public
\* area.
C23_IndexOutOfRange ==
    [][resp'.op = "action" =>
          \A u \in Mover \cap ActivePlayers :
              \A i \in RecycleIndexes \ (0 .. Cardinality(OwnPositions(u)) - 1) :
                  \A c \in RecycleTargets :
                      (OwnPositions(u) # {} /\ Recycle(u, i, c)) =>
                          /\ resp'.code = 400
                          /\ resp'.error = "Invalid piece index"
                          /\ public_area' = public_area]_vars

-----------------------------------------------------------------------------
(* Claims about what a game keeps *)

\* C24: once the room has entered playing, no step changes the turn order
\* stored with the room, whichever request is made.
C24_TurnOrderFixed ==
    [][status # "waiting" => turn_order' = turn_order]_vars

\* Sequence s is a prefix of sequence t.
IsPrefix(s, t) == Len(s) <= Len(t) /\ SubSeq(t, 1, Len(s)) = s

\* C25: once the game has started, every step leaves every player an
\* eliminated list that has the list before the step as a prefix: entries
\* are never removed, reordered or reset.
C25_EliminatedAppendOnly ==
    [][status # "waiting" =>
          \A u \in Users : IsPrefix(eliminated[u], eliminated'[u])]_vars

-----------------------------------------------------------------------------
(* The board views: get_board_summary and GET /api/rooms/<room_id>/state *)

\* Boards with the cells of DeployA, of LateA3 and of LateB1 occupied by
\* other digits.
DeployA2 == [DeployA EXCEPT !["1A"] = 0, !["2A"] = 5]
LateA3b  == BoardOf({<<"1A", 0>>, <<"2A", 7>>, <<"2B", 1>>})
LateB1b  == BoardOf({<<"1A", 0>>})

\* The boards the players of the viewed room have.
ViewBoards(u) ==
    CASE u = 1 -> {DeployA, DeployA2, LateA1, LateA3, LateA3b}
      [] u = 3 -> {DeployB, LateB1, LateB1b, LateB2}
      [] OTHER -> {<<>>}

ViewOrders == {<<1, 3>>, <<3, 2, 1>>}

InitView ==
    /\ status = "playing" /\ turn_order \in ViewOrders
    /\ current_round = PlayRound /\ current_turn = 0
    /\ public_area = <<>>
    /\ \E b1 \in ViewBoards(1), b3 \in ViewBoards(3) :
           board = [u \in Users |->
                       IF u \notin Range(turn_order) THEN <<>>
                       ELSE CASE u = 1 -> b1 [] u = 3 -> b3 [] OTHER -> <<>>]
    /\ eliminated = [u \in Users |-> <<>>]
    /\ is_active = [u \in Users |-> IF u \in Range(turn_order) THEN 1 ELSE None]
    /\ game_actions = PlayedBefore
    /\ resp = Resp("action", None, 200, "", None)
    /\ DuelIdle /\ SettleIdle /\ RaceIdle /\ ViewIdle

\* The 'board' a state query shows to user_id of the row of player p, whose
\* board is b: the caller's own board in full, of any other player
\* 'occupied' or None per cell.
PlayerBoard(user_id, p, b) ==
    IF p = user_id THEN b
    ELSE [cell_id \in DOMAIN b |-> IF b[cell_id] # None THEN "occupied" ELSE NoneText]

\* get_game_state: the player_boards of the response, one per active row.
GetGameState(user_id) ==
    /\ view' = [call |-> "state", user |-> user_id, reveal_all |-> FALSE,
                boards |-> [p \in ActivePlayers |-> PlayerBoard(user_id, p, board[p])]]
    /\ UNCHANGED <<gameVars, duelVars, settleVars, raceVars>>

\* One call of get_board_summary on the board of player p.
BoardSummary(p, reveal_all) ==
    /\ view' = [call |-> "summary", user |-> p, reveal_all |-> reveal_all,
                boards |-> [x \in {p} |-> get_board_summary(board[p], reveal_all)]]
    /\ UNCHANGED <<gameVars, duelVars, settleVars, raceVars>>

NextView ==
    \/ \E u \in Users : GetGameState(u)
    \/ \E p \in ActivePlayers, reveal_all \in BOOLEAN : BoardSummary(p, reveal_all)

SpecView == InitView /\ [][NextView]_vars

\* The cells of board b that hold a digit.
Occupied(b) == {c \in DOMAIN b : b[c] # None}

\* Every board of the viewed rooms.
AllViewBoards == UNION {ViewBoards(u) : u \in Users}

\* v is the view of occupancy of board b: the keys of b, 'occupied' exactly
\* on the cells that hold a digit.
OccupancyOnly(v, b) ==
    /\ DOMAIN v = DOMAIN b
    /\ \A c \in DOMAIN b : (v[c] = "occupied") <=> (b[c] # None)

\* The boards shown redacted by the view last returned.
Redacted ==
    CASE view.call = "state"   -> DOMAIN view.boards \ {view.user}
      [] view.call = "summary" -> IF view.reveal_all THEN {} ELSE {view.user}
      [] OTHER                 -> {}

\* C26: the view of a board returned to another player (get_board_summary
\* without reveal_all, and the opponent branch of the state query) has the
\* cell keys of the board and maps a cell to 'occupied' exactly when it
\* holds a digit; the view of any board with the same keys and the same
\* occupied cells, whatever its digits, is the same view.
C26_ViewShowsOccupancyOnly ==
    \A p \in Redacted :
        /\ OccupancyOnly(view.boards[p], board[p])
        /\ \A b2 \in AllViewBoards :
               (DOMAIN b2 = DOMAIN board[p] /\ Occupied(b2) = Occupied(board[p])) =>
                   IF view.call = "state"
                   THEN PlayerBoard(view.user, p, b2) = view.boards[p]
                   ELSE get_board_summary(b2, FALSE) = view.boards[p]

\* The first player has queried the state: the board of the third, with the
\* digit 0 on 2A, is shown with 2A occupied and the free 1B not.
C26_Witness ==
    /\ view.call = "state" /\ view.user = 1
    /\ board[3] = DeployB /\ board[3]["2A"] = 0
    /\ view.boards[3]["2A"] = "occupied"
    /\ view.boards[3]["1B"] = NoneText

-----------------------------------------------------------------------------
(* Deployment: every dict a client can post as its board *)

\* Ten pieces on ten keys: the dict has no key for a free cell.
DeploySparse == [c \in {x \in Cells : DeployA[x] # None} |-> DeployA[c]]

\* Nine pieces on the 18 cells and a tenth under the key "4A".
DeployExtra ==
    [c \in Cells \cup {"4A"} |-> IF c = "4A" THEN 9 ELSE DeployShort[c]]

\* Eleven pieces on the 18 cells.
DeployEleven == [DeployA EXCEPT !["3B"] = 9]

\* request.get_json().get('board', {}): the boards posted to /ready.
SubmittedBoards ==
    {DeployA, DeployB, DeployShort, DeployEleven, DeploySparse, DeployExtra, <<>>}

NextReady ==
    \/ \E u \in Users : JoinRoom(u)
    \/ \E u \in Users : \E b \in SubmittedBoards : PlayerReady(u, b)
    \/ \E u \in Users, shuffled \in Shuffles(ActivePlayers) : StartGame(u, shuffled)

SpecReady == Init /\ [][NextReady]_vars

\* C27: a deployment is accepted iff exactly 10 cells of the submitted board
\* are occupied; behind an accepted deployment the stored board of the
\* player consists of exactly the 18 cells, 10 of them holding a digit; a
\* board with any other number of occupied cells is rejected and the stored
\* boards are unchanged.
C27_DeploymentComplete ==
    [][resp'.op = "ready" =>
          \A u \in Users : \A b \in SubmittedBoards :
              PlayerReady(u, b) =>
                  /\ resp'.code = 200 <=> BoardCount(b) = 10
                  /\ (resp'.code = 200 /\ is_active[u] # None) =>
                         /\ DOMAIN board'[u] = Cells
                         /\ BoardCount(board'[u]) = 10
                  /\ resp'.code # 200 => board' = board]_vars

-----------------------------------------------------------------------------
(* Claims about the pieces of a game *)

\* The pieces of player u: on its board, in the public area, eliminated.
PiecesOf(u, b, area, elim) ==
    BoardCount(b[u]) + Cardinality({k \in 1 .. Len(area) : area[k].player_id = u})
    + Len(elim[u])

\* Every player of the game has its ten pieces.
AllConserved ==
    \A x \in Range(turn_order) : PiecesOf(x, board, public_area, eliminated) = 10

\* The back row of u has room for every leftover the step can return to u.
BackRowHasRoom(u) == Cardinality(FreeBackCols(board[u])) > Len(public_area)

\* C28: pieces are conserved by game actions: when every player of the game
\* has ten pieces counted over its board, the public area and its
\* eliminated list, an accepted action leaves ten pieces to every player
\* whose back row has room for its leftovers.
C28_PiecesConserved ==
    [][(status = "playing" /\ ActionAccepted /\ AllConserved) =>
          \A u \in Range(turn_order) :
              BackRowHasRoom(u) =>
                  PiecesOf(u, board', public_area', eliminated') = 10]_vars

-----------------------------------------------------------------------------
(* Claims about rejected actions *)

\* The step is a request to game_action answered with an error.
ActionRejected == resp'.op = "action" /\ resp'.code # 200

\* C29: a request to game_action answered with an error (not your turn, no
\* piece at the position, target cell occupied, invalid target cell, invalid
\* piece index, invalid action type, target player not found) leaves the
\* round, the turn pointer, the turn order, the public area, every board,
\* every eliminated list and the rows of game_actions as they were.
C29_RejectedLeavesState ==
    [][ActionRejected =>
          /\ UNCHANGED <<status, current_round, current_turn, turn_order, public_area>>
          /\ UNCHANGED <<board, eliminated, is_active, game_actions>>]_vars

\* A recycle with an index past the player's pieces was answered with
\* "Invalid piece index" in a room whose public area holds pieces.
C29_Witness ==
    /\ resp.op = "action" /\ resp.code = 400 /\ resp.error = "Invalid piece index"
    /\ status = "playing" /\ public_area # <<>>
====
